---- MODULE Spec2Model ----
(***************************************************************************)
(* The "set" bot (app/src/main.rs): a Discord bot that keeps one channel   *)
(* free of duplicate messages.  The process keeps a MessagesCache (a set   *)
(* of normalized message texts and the id of the last message seen) behind *)
(* a tokio Mutex, fills it from the channel history when the gateway sends *)
(* Ready, checks every live Message event against it, and writes it to     *)
(* set-bot-cache.json after each handler.                                  *)
(*                                                                         *)
(* Handlers are async tasks on a current_thread runtime: they interleave   *)
(* at their .await points only, so one action of the model is the code     *)
(* between two awaits.  A crash can fall anywhere, also between the two    *)
(* system calls of a save.                                                 *)
(***************************************************************************)
EXTENDS Integers, Sequences, FiniteSets, TLC

\* ------------------------------------------------------------------ bounds

\* Messages ever posted on the platform in one behaviour.
MaxMsgs == 3

\* Messages one history request with .after(id) returns (the platform's
\* default page size; the code sets none).
PageLimit == 1

\* Crashes of the process in one behaviour.
MaxCrashes == 1

\* Message handlers in flight at once.
MaxActive == 2

\* Characters of a text given to the normalizer.
MaxLen == 3

\* --------------------------------------------------------------- constants

\* GetMessages::new().limit(100)
NoMarkLimit == 100

\* get_the_channel_id(): the CHANNEL_ID the bot listens to
CHANNEL_ID == "monitored"

OtherChannel == "other"

\* Option<MessageId>
None == << >>

Some(id) == << id >>

\* Message texts, as sequences of characters.  "SP" and "TAB" are white
\* space, "'" is a combining acute accent, "e'" the precomposed letter, "sz"
\* the sharp s.
Texts ==
    { << "H", "i" >>,
      << "SP", "h", "I", "TAB", "SP" >>,
      << "y", "o" >> }

\* What a user can post: any text on the monitored channel, one text on
\* another channel the bot also receives events for.
PostInputs ==
    { [channel_id |-> CHANNEL_ID, content |-> t] : t \in Texts }
      \cup { [channel_id |-> OtherChannel, content |-> << "H", "i" >>] }

\* -------------------------------------------------------------- normalizer

\* char::to_lowercase.  "sz" is the sharp s: a lower-case letter, which
\* to_lowercase leaves as it is.
to_lowercase(c) ==
    CASE c = "H" -> "h"
      [] c = "S" -> "s"
      [] c = "I" -> "i"
      [] c = "Y" -> "y"
      [] c = "O" -> "o"
      [] c = "E" -> "e"
      [] c = "E'" -> "e'"
      [] OTHER -> c

is_whitespace(c) == c \in { "SP", "TAB", "NL" }

\* str::to_lowercase
str_to_lowercase(s) == [ i \in 1..Len(s) |-> to_lowercase(s[i]) ]

\* Unicode canonical composition: a base letter followed by the combining
\* accent becomes the precomposed letter.
RECURSIVE nfc(_)
nfc(s) ==
    IF Len(s) < 2 THEN s
    ELSE IF s[1] = "e" /\ s[2] = "'"
         THEN << "e'" >> \o nfc(SubSeq(s, 3, Len(s)))
         ELSE << s[1] >> \o nfc(Tail(s))

\* str::split_whitespace: the maximal runs of non-white-space characters
RECURSIVE split_whitespace(_, _)
split_whitespace(s, cur) ==
    IF s = << >> THEN (IF cur = << >> THEN << >> ELSE << cur >>)
    ELSE IF is_whitespace(Head(s))
         THEN (IF cur = << >> THEN << >> ELSE << cur >>)
                  \o split_whitespace(Tail(s), << >>)
         ELSE split_whitespace(Tail(s), Append(cur, Head(s)))

\* [&str]::join(" ")
RECURSIVE join(_)
join(tokens) ==
    IF tokens = << >> THEN << >>
    ELSE IF Len(tokens) = 1 THEN tokens[1]
    ELSE tokens[1] \o << "SP" >> \o join(Tail(tokens))

noramlize_string(msg) ==
    join(split_whitespace(nfc(str_to_lowercase(msg)), << >>))

\* ------------------------------------------------------------------- state

VARIABLES
    chan,             \* every message posted, oldest first; a message's id is its index
    gone,             \* ids of the messages deleted on the platform
    phase,            \* the process: "down", "running", "failed" (panicked at startup)
    cache,            \* MessagesCache.cache
    last_message_id,  \* MessagesCache.last_message_id
    file,             \* set-bot-cache.json
    holder,           \* who holds the mutex data.messages_cache
    live,             \* live[id]: where the Message handler of message id stands
    newly_inserted,   \* newly_inserted[id]: the handler's local
    rpc,              \* where the Ready handler stands
    rlast,            \* Ready handler's local last_message_id
    msgs,             \* Ready handler's local msgs: the page, as ids, newest first
    ri,               \* Ready handler's position in msgs
    liveDel,          \* history: ids the Message handlers asked the platform to delete
    readyDel,         \* history: ids the catch-up asked the platform to delete
    trues,            \* history: trues[k]: inserts of k that returned true since startup
    boot,             \* history: what the last startup found at the file's path
    crashes,          \* crashes so far
    rfrom,            \* history: the mark the running catch-up started from
    rlog,             \* history: what the running catch-up scanned: << id, newly >>, in order
    settled,          \* history: "yes" when a catch-up has completed and nothing was posted
                      \* or handled since, "again" when another has completed after that
    readyFail         \* history: readyFail[id]: 1 when the delete of id failed in the last
                      \* catch-up, 2 when another catch-up has started since

vars == << chan, gone, phase, cache, last_message_id, file, holder,
           live, newly_inserted, rpc, rlast, msgs, ri, liveDel, readyDel, trues, boot,
           crashes, rfrom, rlog, settled, readyFail >>

Ids == 1..MaxMsgs

Keys == { noramlize_string(t) : t \in Texts }

Key(id) == noramlize_string(chan[id].content)

\* The holders of the mutex data.messages_cache.
Free == [ who |-> "free", id |-> 0 ]

ByReady == [ who |-> "ready", id |-> 0 ]

\* impl MessagesCache { fn new() }
MessagesCache_new == [ cache |-> {}, last_message_id |-> None ]

NoFile == [ kind |-> "absent", cache |-> {}, last_message_id |-> None ]

\* An insert that reports every key as new, as a contains-then-insert pair
\* raced by another task would.
insert_reports_new(set, k) == [ set |-> set \cup { k }, newly |-> TRUE ]

\* HashSet::insert: the set with k, and whether k was newly inserted
insert(set, k) == [ set |-> set \cup { k }, newly |-> k \notin set ]

Count(k, r) == [ trues EXCEPT ![k] = IF r.newly /\ @ < 2 THEN @ + 1 ELSE @ ]

Init ==
    /\ chan = << >>
    /\ gone = {}
    /\ phase = "down"
    /\ cache = {}
    /\ last_message_id = None
    /\ file = NoFile
    /\ holder = Free
    /\ live = [ id \in Ids |-> "none" ]
    /\ newly_inserted = [ id \in Ids |-> FALSE ]
    /\ rpc = "none"
    /\ rlast = None
    /\ msgs = << >>
    /\ ri = 0
    /\ liveDel = {}
    /\ readyDel = {}
    /\ trues = [ k \in Keys |-> 0 ]
    /\ boot = "none"
    /\ crashes = 0
    /\ rfrom = None
    /\ rlog = << >>
    /\ settled = "no"
    /\ readyFail = [ id \in Ids |-> 0 ]

\* ---------------------------------------------------------------- platform

\* The ids of set S, greatest first.
RECURSIVE Desc(_)
Desc(S) ==
    IF S = {} THEN << >>
    ELSE LET m == CHOOSE x \in S : \A y \in S : y <= x
         IN  << m >> \o Desc(S \ { m })

\* The messages of the monitored channel, and those now on it.
Monitored == { i \in 1..Len(chan) : chan[i].channel_id = CHANNEL_ID }

Present == Monitored \ gone

Lowest(S, n) == { i \in S : Cardinality({ j \in S : j < i }) < n }

Highest(S, n) == { i \in S : Cardinality({ j \in S : j > i }) < n }

\* channel.messages(ctx, query): with .after(id) the messages that follow id,
\* a page of them; with .limit(n) alone the n most recent ones.  Either way
\* the platform answers newest first.
channel_messages(query) ==
    IF query.kind = "limit"
    THEN Desc(Highest(Present, query.n))
    ELSE Desc(Lowest({ i \in Present : i > query.id }, PageLimit))

\* The gateway session has delivered Ready: Message events flow.
connected == phase = "running" /\ rpc # "none"

\* A handler without the channel check.
on_message_any(channel_id) == "nick"

\* A user posts a message.  While the session is up, the gateway delivers a
\* Message event and the handler runs to its first await: it returns Ok at
\* once for another channel, and otherwise waits for author_nick.
on_message(channel_id) ==
    IF channel_id # CHANNEL_ID THEN "ignored" ELSE "nick"

\* The Message handlers that have started and not returned.
Active == { id \in Ids : live[id] \in { "nick", "delete", "commit" } }

Post(inp) ==
    /\ Len(chan) < MaxMsgs
    /\ Cardinality(Active) < MaxActive
    /\ chan' = Append(chan, inp)
    /\ live' = IF connected
               THEN [ live EXCEPT ![Len(chan) + 1] = on_message(inp.channel_id) ]
               ELSE live
    /\ settled' = "no"
    /\ UNCHANGED << gone, phase, cache, last_message_id, file, holder,
                    newly_inserted, rpc, rlast, msgs, ri, liveDel, readyDel,
                    trues, boot, crashes, rfrom, rlog, readyFail >>

\* ------------------------------------------------------------ start, crash

\* A load that takes an unreadable file for an empty state.
from_file_or_default(f) ==
    IF f.kind = "full"
    THEN [ ok |-> TRUE,
           state |-> [ cache |-> f.cache, last_message_id |-> f.last_message_id ] ]
    ELSE [ ok |-> TRUE, state |-> MessagesCache_new ]

\* MessagesCache::from_file: serde_json::from_reader(..).expect(..)
from_file(f) ==
    IF f.kind = "full"
    THEN [ ok |-> TRUE,
           state |-> [ cache |-> f.cache, last_message_id |-> f.last_message_id ] ]
    ELSE [ ok |-> FALSE, state |-> MessagesCache_new ]

\* main: File::open, then from_file or MessagesCache::new()
load(f) ==
    IF f.kind = "absent"
    THEN [ ok |-> TRUE, state |-> MessagesCache_new ]
    ELSE from_file(f)

Start ==
    /\ phase = "down"
    /\ LET r == load(file)
       IN  /\ phase' = IF r.ok THEN "running" ELSE "failed"
           /\ cache' = r.state.cache
           /\ last_message_id' = r.state.last_message_id
    /\ boot' = file.kind
    /\ UNCHANGED << chan, gone, file, holder, live, newly_inserted, rpc, rlast,
                    msgs, ri, liveDel, readyDel, trues, crashes, rfrom, rlog,
                    settled, readyFail >>

\* The process dies: memory and tasks are lost, the platform and the file stay.
Lost ==
    /\ phase = "running"
    /\ crashes < MaxCrashes
    /\ crashes' = crashes + 1
    /\ phase' = "down"
    /\ cache' = {}
    /\ last_message_id' = None
    /\ holder' = Free
    /\ live' = [ id \in Ids |-> "none" ]
    /\ newly_inserted' = [ id \in Ids |-> FALSE ]
    /\ rpc' = "none"
    /\ rlast' = None
    /\ msgs' = << >>
    /\ ri' = 0
    /\ trues' = [ k \in Keys |-> 0 ]
    /\ rfrom' = None
    /\ rlog' = << >>
    /\ settled' = "no"
    /\ UNCHANGED << chan, gone, liveDel, readyDel, boot, readyFail >>

Crash ==
    /\ Lost
    /\ UNCHANGED file

\* ------------------------------------------------------------------- saves

\* fs::File::create: the file exists and is empty
File_create == [ kind |-> "trunc", cache |-> {}, last_message_id |-> None ]

\* serde_json::to_writer_pretty(&file, &*messages_cache)
to_writer_pretty(c, l) == [ kind |-> "full", cache |-> c, last_message_id |-> l ]

\* "Committing messages to disk": File::create, then to_writer_pretty.  No
\* await separates the two, so only the death of the process can: `whole` is
\* whether the process lives to the end of the write.
commit(whole) ==
    IF whole THEN to_writer_pretty(cache, last_message_id) ELSE File_create

\* ------------------------------------------------------- FullEvent::Message

\* messages_cache.last_message_id = Some(new_message.id)
set_last(cur, id) == Some(id)

\* A handler that goes on to the save whatever the insert said.
after_insert_no_delete(newly) == "commit"

\* A handler that deletes whatever the insert said.
after_insert_always_delete(newly) == "delete"

\* if !newly_inserted { new_message.delete(ctx).await }, then the save
after_insert(newly) == IF newly THEN "commit" ELSE "delete"

MsgInsert(id) ==
    /\ live[id] = "nick"
    /\ holder = Free
    /\ LET r == insert(cache, Key(id))
       IN  /\ cache' = r.set
           /\ trues' = Count(Key(id), r)
           /\ newly_inserted' = [ newly_inserted EXCEPT ![id] = r.newly ]
           /\ live' = [ live EXCEPT ![id] = after_insert(r.newly) ]
    /\ last_message_id' = set_last(last_message_id, id)
    /\ settled' = "no"
    /\ UNCHANGED << chan, gone, phase, file, holder, rpc, rlast, msgs, ri,
                    liveDel, readyDel, boot, crashes, rfrom, rlog, readyFail >>

\* if let Err(error) = res { println!(..) }: the error is printed and dropped
msg_delete_result(ok) == "commit"

\* new_message.delete(ctx).await
MsgDelete(id, ok) ==
    /\ live[id] = "delete"
    /\ liveDel' = liveDel \cup { id }
    /\ gone' = IF ok THEN gone \cup { id } ELSE gone
    /\ live' = [ live EXCEPT ![id] = msg_delete_result(ok) ]
    /\ UNCHANGED << chan, phase, cache, last_message_id, file, holder,
                    newly_inserted, rpc, rlast, msgs, ri, readyDel, trues, boot,
                    crashes, rfrom, rlog, settled, readyFail >>

MsgCommit(id) ==
    /\ live[id] = "commit"
    /\ holder = Free
    /\ file' = commit(TRUE)
    /\ live' = [ live EXCEPT ![id] = "done" ]
    /\ UNCHANGED << chan, gone, phase, cache, last_message_id, holder,
                    newly_inserted, rpc, rlast, msgs, ri, liveDel, readyDel,
                    trues, boot, crashes, rfrom, rlog, settled, readyFail >>

\* The process dies inside the handler's save.
MsgCommitCrash(id) ==
    /\ live[id] = "commit"
    /\ holder = Free
    /\ file' = commit(FALSE)
    /\ Lost

\* --------------------------------------------------------- FullEvent::Ready

\* The gateway delivers Ready: at login, and again when the session is
\* re-established after a gap, in which the handlers of the events delivered
\* before it have returned.  One Ready handler runs at a time.
ReadyEvent ==
    /\ phase = "running"
    /\ rpc \in { "none", "done", "err" }
    /\ rpc # "none" => Active = {}
    /\ rpc' = "chan"
    /\ UNCHANGED << chan, gone, phase, cache, last_message_id, file, holder, live,
                    newly_inserted, rlast, msgs, ri, liveDel, readyDel, trues,
                    boot, crashes, rfrom, rlog, settled, readyFail >>

ReadyLock ==
    /\ rpc = "chan"
    /\ holder = Free
    /\ holder' = ByReady
    /\ rlast' = last_message_id
    /\ rfrom' = last_message_id
    /\ rlog' = << >>
    /\ rpc' = "fetch"
    /\ readyFail' = [ id \in Ids |-> IF readyFail[id] = 1 THEN 2 ELSE readyFail[id] ]
    /\ UNCHANGED << chan, gone, phase, cache, last_message_id, file, live,
                    newly_inserted, msgs, ri, liveDel, readyDel, trues, boot,
                    crashes, settled >>

\* A query that forgets the mark.
query_newest(last) == [ kind |-> "limit", n |-> NoMarkLimit, id |-> 0 ]

\* let query = match last_message_id { Some(id) => ..after(id), None => ..limit(100) }
query_for(last) ==
    IF last = None
    THEN [ kind |-> "limit", n |-> NoMarkLimit, id |-> 0 ]
    ELSE [ kind |-> "after", n |-> PageLimit, id |-> last[1] ]

\* A catch-up that never writes its mark back.
store_mark_stale(last) == last_message_id

\* messages_cache.last_message_id = last_message_id, after the loop
store_mark(last) == last

ReadyFetch ==
    /\ rpc = "fetch"
    /\ LET page == channel_messages(query_for(rlast))
       IN  IF page = << >>
           THEN /\ last_message_id' = store_mark(rlast)
                /\ holder' = Free
                /\ rpc' = "commit"
                /\ rlast' = None
                /\ settled' = IF settled = "no" THEN "yes" ELSE "again"
                /\ UNCHANGED << msgs, ri, rfrom, rlog >>
           ELSE /\ msgs' = page
                /\ ri' = 1
                /\ rpc' = "scan"
                /\ UNCHANGED << last_message_id, holder, rlast, rfrom, rlog,
                                settled >>
    /\ UNCHANGED << chan, gone, phase, cache, file, live, newly_inserted,
                    liveDel, readyDel, trues, boot, crashes, readyFail >>

\* let msgs = channel.messages(ctx, query).await?; the request fails and `?`
\* returns the error from the handler: the guard is dropped, the mark is not
\* stored and nothing is saved.
ReadyFetchErr ==
    /\ rpc = "fetch"
    /\ holder' = Free
    /\ rpc' = "err"
    /\ rlast' = None
    /\ rfrom' = None
    /\ rlog' = << >>
    /\ UNCHANGED << chan, gone, phase, cache, last_message_id, file, live,
                    newly_inserted, msgs, ri, liveDel, readyDel, trues, boot,
                    crashes, settled, readyFail >>

\* The order the loop walks the page in: `for message in &msgs`
scan_order(page) == page

\* The message the loop is at.
Cur == scan_order(msgs)[ri]

\* A mark taken from the other end of the page.
page_mark_oldest(page) == Some(page[Len(page)])

\* last_message_id = Some(msgs.first().unwrap().id)
page_mark(page) == Some(page[1])

\* The end of the for body: the next message, or the next page.
Advance ==
    IF ri < Len(msgs)
    THEN /\ ri' = ri + 1
         /\ rpc' = "scan"
         /\ UNCHANGED << msgs, rlast >>
    ELSE /\ rlast' = page_mark(msgs)
         /\ msgs' = << >>
         /\ ri' = 0
         /\ rpc' = "fetch"

ReadyScan ==
    /\ rpc = "scan"
    /\ LET r == insert(cache, Key(Cur))
       IN  /\ cache' = r.set
           /\ trues' = Count(Key(Cur), r)
           /\ rlog' = Append(rlog, << Cur, r.newly >>)
           /\ IF r.newly
              THEN Advance
              ELSE /\ rpc' = "delete"
                   /\ UNCHANGED << msgs, ri, rlast >>
    /\ UNCHANGED << chan, gone, phase, last_message_id, file, holder, live,
                    newly_inserted, liveDel, readyDel, boot, crashes, rfrom,
                    settled, readyFail >>

\* A loop that gives up at the first delete the platform refuses.
ready_delete_result_abort(ok) == IF ok THEN "next" ELSE "err"

\* if let Err(error) = res { println!(..) }: the error is printed and dropped
ready_delete_result(ok) == "next"

\* message.delete(ctx).await
ReadyDelete(ok) ==
    /\ rpc = "delete"
    /\ readyDel' = readyDel \cup { Cur }
    /\ gone' = IF ok THEN gone \cup { Cur } ELSE gone
    /\ readyFail' = [ readyFail EXCEPT ![Cur] = IF ok THEN 0 ELSE 1 ]
    /\ IF ready_delete_result(ok) = "next"
       THEN Advance /\ UNCHANGED holder
       ELSE /\ holder' = Free
            /\ rpc' = "err"
            /\ rlast' = None
            /\ msgs' = << >>
            /\ ri' = 0
    /\ UNCHANGED << chan, phase, cache, last_message_id, file, live,
                    newly_inserted, liveDel, trues, boot, crashes, rfrom, rlog,
                    settled >>

ReadyCommit ==
    /\ rpc = "commit"
    /\ holder = Free
    /\ file' = commit(TRUE)
    /\ rpc' = "done"
    /\ rfrom' = None
    /\ rlog' = << >>
    /\ UNCHANGED << chan, gone, phase, cache, last_message_id, holder, live,
                    newly_inserted, rlast, msgs, ri, liveDel, readyDel, trues,
                    boot, crashes, settled, readyFail >>

\* The process dies inside the handler's save.
ReadyCommitCrash ==
    /\ rpc = "commit"
    /\ holder = Free
    /\ file' = commit(FALSE)
    /\ Lost

\* ----------------------------------------------------------- specification

Next ==
    \/ \E inp \in PostInputs : Post(inp)
    \/ Start
    \/ Crash
    \/ \E id \in Ids : MsgInsert(id)
    \/ \E id \in Ids, ok \in BOOLEAN : MsgDelete(id, ok)
    \/ \E id \in Ids : MsgCommit(id)
    \/ \E id \in Ids : MsgCommitCrash(id)
    \/ ReadyEvent
    \/ ReadyLock
    \/ ReadyFetch
    \/ ReadyFetchErr
    \/ ReadyScan
    \/ \E ok \in BOOLEAN : ReadyDelete(ok)
    \/ ReadyCommit
    \/ ReadyCommitCrash

Spec == Init /\ [][Next]_vars

TypeOK ==
    /\ phase \in { "down", "running", "failed" }
    /\ cache \subseteq Keys
    /\ holder \in { Free, ByReady }
    /\ gone \subseteq liveDel \cup readyDel

\* Live messages handled one after another by a process that started with no
\* state file: a message is posted only when every handler has returned.
Quiet == connected /\ rpc = "done" /\ Active = {}

SeqNext ==
    \/ Start
    \/ ReadyEvent /\ rpc = "none"
    \/ ReadyLock
    \/ ReadyFetch
    \/ ReadyCommit
    \/ \E inp \in PostInputs : Quiet /\ Post(inp)
    \/ \E id \in Ids : MsgInsert(id)
    \/ \E id \in Ids, ok \in BOOLEAN : MsgDelete(id, ok)
    \/ \E id \in Ids : MsgCommit(id)

SeqSpec == Init /\ [][SeqNext]_vars

\* The Ready handler has started and its catch-up has not ended.
CatchingUp == rpc \in { "chan", "fetch", "scan", "delete" }

\* Catch-ups on a channel where messages are posted only while the process is
\* down, no request for the history fails and the process dies only between
\* two handlers.  The runtime polls a task that can run, and a request to the
\* platform returns.
ScanNext ==
    \/ \E inp \in PostInputs : phase = "down" /\ Post(inp)
    \/ Start
    \/ Crash /\ rpc = "done"
    \/ ReadyEvent
    \/ ReadyLock
    \/ ReadyFetch
    \/ ReadyScan
    \/ \E ok \in BOOLEAN : ReadyDelete(ok)
    \/ ReadyCommit

ScanSpec ==
    /\ Init
    /\ [][ScanNext]_vars
    /\ WF_vars(ReadyLock)
    /\ WF_vars(ReadyFetch)
    /\ WF_vars(ReadyScan)
    /\ WF_vars(\E ok \in BOOLEAN : ReadyDelete(ok))
    /\ WF_vars(ReadyCommit)

\* --------------------------------------------------- texts of the normalizer

Chars == { "H", "h", "S", "s", "sz", "e", "E", "'", "e'", "E'", "SP", "TAB" }

\* msg: &str, any text of at most MaxLen characters
Words == UNION { [ 1..n -> Chars ] : n \in 0..MaxLen }

\* The text s with the n characters from position i replaced by r.
Replace(s, i, n, r) == SubSeq(s, 1, i - 1) \o r \o SubSeq(s, i + n, Len(s))

\* The other case of a letter.
swap_case(c) ==
    CASE c = "H" -> "h"
      [] c = "h" -> "H"
      [] c = "S" -> "s"
      [] c = "s" -> "S"
      [] c = "e" -> "E"
      [] c = "E" -> "e"
      [] c = "e'" -> "E'"
      [] c = "E'" -> "e'"
      [] OTHER -> c

\* The texts that differ from s in the case of one letter; the upper case of
\* the sharp s is "SS" (str::to_uppercase).
CaseVariants(s) ==
    { Replace(s, i, 1, << swap_case(s[i]) >>) : i \in 1..Len(s) }
      \cup { Replace(s, i, 1, << "S", "S" >>) : i \in { j \in 1..Len(s) : s[j] = "sz" } }

\* The texts that differ from s in one run of white space: another kind of
\* white space, a longer run, or white space at either end.
SpaceVariants(s) ==
    { Replace(s, i, 1, << w >>) :
          i \in { j \in 1..Len(s) : is_whitespace(s[j]) }, w \in { "SP", "TAB" } }
      \cup { Replace(s, i, 1, << s[i], w >>) :
                i \in { j \in 1..Len(s) : is_whitespace(s[j]) }, w \in { "SP", "TAB" } }
      \cup { << w >> \o s : w \in { "SP", "TAB" } }
      \cup { s \o << w >> : w \in { "SP", "TAB" } }

\* The texts that differ from s in the composition of one accented letter.
ComposedVariants(s) ==
    { Replace(s, i, 2, << "e'" >>) :
          i \in { j \in 1..(Len(s) - 1) : s[j] = "e" /\ s[j + 1] = "'" } }
      \cup { Replace(s, i, 2, << "E'" >>) :
                i \in { j \in 1..(Len(s) - 1) : s[j] = "E" /\ s[j + 1] = "'" } }
      \cup { Replace(s, i, 1, << "e", "'" >>) : i \in { j \in 1..Len(s) : s[j] = "e'" } }
      \cup { Replace(s, i, 1, << "E", "'" >>) : i \in { j \in 1..Len(s) : s[j] = "E'" } }

OnChannel(t) == [ channel_id |-> CHANNEL_ID, content |-> t ]

\* A user posts a text, and then texts that differ from the one before in
\* letter case, in white space or in composition only; the bot is down.
PostWord == chan = << >> /\ \E t \in Words : Post(OnChannel(t))

PostCaseVariant ==
    chan # << >> /\ \E t \in CaseVariants(chan[Len(chan)].content) : Post(OnChannel(t))

PostSpaceVariant ==
    chan # << >> /\ \E t \in SpaceVariants(chan[Len(chan)].content) : Post(OnChannel(t))

PostComposedVariant ==
    chan # << >> /\ \E t \in ComposedVariants(chan[Len(chan)].content) : Post(OnChannel(t))

NormNext ==
    \/ PostWord
    \/ PostCaseVariant
    \/ PostSpaceVariant
    \/ PostComposedVariant

NormSpec == Init /\ [][NormNext]_vars

\* ------------------------------------------------------------------ claims

\* The messages whose key is the key of an earlier message of the channel.
Repeats == { i \in Monitored : \E j \in Monitored : j < i /\ Key(j) = Key(i) }

\* C1: when live messages are handled one after another from an empty cache,
\* the handlers have asked the platform to delete exactly the messages whose
\* canonical key is that of an earlier message, and the cache holds as many
\* keys as the messages have distinct keys.
C1_SequentialDuplicatesDeleted ==
    /\ liveDel \subseteq Repeats
    /\ Active = {} =>
          /\ liveDel = Repeats
          /\ Cardinality(cache) = Cardinality({ Key(i) : i \in Monitored })

C1_Witness ==
    /\ Active = {}
    /\ Len(chan) = 3
    /\ chan[1].content # chan[2].content
    /\ liveDel = { 2 }
    /\ Cardinality(cache) = 2

\* C2: since the process started, at most one insert of a key has returned
\* true, under every interleaving of the Message handlers and the catch-up;
\* a process that started with an empty cache holds exactly the keys for which
\* one insert returned true.
C2_OneNewInsertPerKey ==
    \A k \in Keys :
        /\ trues[k] <= 1
        /\ trues[k] = 1 => k \in cache
        /\ (phase = "running" /\ boot = "absent" /\ k \in cache) => trues[k] = 1

C2_Witness ==
    \E i, j \in Monitored :
        /\ i # j
        /\ Key(i) = Key(j)
        /\ live[i] = "delete"
        /\ live[j] = "commit"
        /\ newly_inserted[j]
        /\ rpc = "delete"
        /\ Key(Cur) = Key(i)
        /\ trues[Key(i)] = 1

\* The catch-up's fetch returns: a page to scan, or the empty page that ends it.
Fetched == rpc = "fetch" /\ rpc' \in { "scan", "commit" }

Completes == rpc = "fetch" /\ rpc' = "commit"

\* C3: a catch-up that started from a stored mark h fetches only messages
\* posted after h, and when it completes every message on the monitored
\* channel posted after h has its key in the cache.
C3_CatchUpFromMark ==
    [][ (Fetched /\ rfrom # None) =>
            /\ rpc' = "scan" => \A p \in 1..Len(msgs') : msgs'[p] > rfrom[1]
            /\ rpc' = "commit" =>
                  \A i \in Present : i > rfrom[1] => Key(i) \in cache' ]_vars

C3_Witness ==
    /\ rpc = "commit"
    /\ rfrom = Some(1)
    /\ Len(rlog) = 2
    /\ Present = { 1, 2, 3 }

\* C4: when the catch-up asks for a message to be deleted because a message
\* it scanned before had the same key and was new to the cache, the message
\* kept is the older of the two.
C4_CatchUpKeepsOlder ==
    rpc = "delete" =>
        \A p \in 1..Len(rlog) :
            (rlog[p][2] /\ Key(rlog[p][1]) = Key(Cur)) => rlog[p][1] < Cur

\* C5: the mark, once set, never moves to an earlier id while the process runs.
C5_MarkNeverMovesBack ==
    [][ (last_message_id # None /\ last_message_id' # None) =>
            last_message_id'[1] >= last_message_id[1] ]_vars

\* The newest message the running catch-up has scanned.
NewestScanned ==
    CHOOSE m \in { rlog[p][1] : p \in 1..Len(rlog) } :
        \A p \in 1..Len(rlog) : rlog[p][1] <= m

Idle == phase = "running" /\ rpc = "done" /\ Active = {}

Elsewhere == (1..Len(chan)) \ Monitored

\* C8: the handler of a Message event of another channel returns Ok at its
\* first line: the step leaves cache, mark and file as they are and asks for
\* no delete, and the handler never gets past it.
C8_OtherChannelIgnored ==
    [][ /\ \A id \in Ids :
              (live[id] # "ignored" /\ live'[id] = "ignored") =>
                  /\ cache' = cache
                  /\ last_message_id' = last_message_id
                  /\ file' = file
                  /\ liveDel' = liveDel
                  /\ readyDel' = readyDel
                  /\ gone' = gone
        /\ \A id \in (1..Len(chan')) \ Monitored' :
              /\ live'[id] \in { "none", "ignored" }
              /\ id \notin liveDel'
              /\ (connected /\ id > Len(chan)) => live'[id] = "ignored"
      ]_vars

C8_Witness ==
    \E id \in Elsewhere :
        /\ live[id] = "ignored"
        /\ cache # {}
        /\ Key(id) \notin cache
        /\ id \notin liveDel

\* C9: a save is atomic with respect to crashes: whenever the process is
\* down, the state file is absent or holds a complete record, so that the next
\* startup loads it.
C9_SaveIsCrashAtomic ==
    /\ phase = "down" => file.kind \in { "absent", "full" }
    /\ phase # "failed"

\* C10: a startup that finds no state file runs with the empty state; one
\* that finds a file it cannot parse fails, and the failed process never runs
\* and never writes the file.
C10_StartupLoad ==
    [][ /\ (phase = "down" /\ phase' # "down") =>
              /\ file.kind = "absent" =>
                    /\ phase' = "running"
                    /\ cache' = {}
                    /\ last_message_id' = None
              /\ file.kind = "trunc" => phase' = "failed"
              /\ file.kind = "full" =>
                    /\ phase' = "running"
                    /\ cache' = file.cache
                    /\ last_message_id' = file.last_message_id
        /\ phase = "failed" => (phase' = "failed" /\ file' = file)
        /\ file'.kind = "trunc" => phase' # "running"
      ]_vars

C10_Witness ==
    /\ phase = "failed"
    /\ boot = "trunc"
    /\ file.kind = "trunc"
    /\ Len(chan) = 3

\* No handler is executing: the process runs and every handler that started
\* has returned, with Ok or with an error.
NoHandler == phase = "running" /\ rpc \in { "none", "done", "err" } /\ Active = {}

\* The MessagesCache in memory.
InMemory == [ cache |-> cache, last_message_id |-> last_message_id ]

\* C11: whenever no handler is executing (and no save has failed: no save
\* fails in this model), the state file holds the in-memory state: a startup
\* that loads it gets exactly the cache and the mark the process has.
C11_FileEqualsMemory ==
    NoHandler => load(file) = [ ok |-> TRUE, state |-> InMemory ]

\* The messages whose delete the platform refused in the last catch-up.
FailedNow == { id \in Ids : readyFail[id] = 1 }

\* C12: a delete the platform refuses does not end the catch-up: the loop
\* goes on to the next message of the page or to the next page with the lock
\* held, a catch-up in which a delete failed still ends with every message
\* after its starting mark in the cache and the mark at the newest message it
\* scanned, and the Ready handler then saves that state and returns Ok.  A
\* Message handler whose delete is refused goes on to its save and returns Ok.
C12_DeleteFailureNotFatal ==
    [][ /\ (rpc = "delete" /\ rpc' # "delete" /\ phase' = "running") =>
              /\ holder' = ByReady
              /\ IF ri < Len(msgs)
                 THEN rpc' = "scan" /\ ri' = ri + 1 /\ msgs' = msgs
                 ELSE rpc' = "fetch" /\ rlast' = Some(msgs[1])
        /\ (Completes /\ FailedNow # {}) =>
              /\ holder' = Free
              /\ last_message_id' = Some(NewestScanned)
              /\ \A i \in Present :
                    (rfrom = None \/ i > rfrom[1]) => Key(i) \in cache'
        /\ (rpc = "commit" /\ phase' = "running" /\ rpc' # "commit") =>
              /\ rpc' = "done"
              /\ file' = to_writer_pretty(cache, last_message_id)
        /\ \A id \in Ids :
              /\ (live[id] = "delete" /\ live'[id] # "delete" /\ phase' = "running") =>
                    live'[id] = "commit"
              /\ (live[id] = "commit" /\ live'[id] # "commit" /\ phase' = "running") =>
                    /\ live'[id] = "done"
                    /\ file' = to_writer_pretty(cache, last_message_id)
      ]_vars

C12_Witness ==
    /\ rpc = "done"
    /\ readyFail[2] = 1
    /\ 2 \notin gone
    /\ Key(1) # Key(2)
    /\ Key(1) \in cache
    /\ file = to_writer_pretty(cache, Some(3))

\* C13: a history request that fails does not end the Ready handler with keys
\* in the cache whose messages lie after the stored mark: every message the
\* catch-up scanned is at or before the mark the handler leaves behind.
C13_FetchErrorRecovered ==
    [][ (rpc = "fetch" /\ rpc' = "err") =>
            \A p \in 1..Len(rlog) :
                /\ last_message_id' # None
                /\ rlog[p][1] <= last_message_id'[1] ]_vars

\* C14: texts that differ only in letter case, in their runs of white space
\* or in the composition of their accented letters have the same key, and a
\* text of white space only has the empty key.
C14_VariantsShareKey ==
    /\ \A i, j \in 1..Len(chan) : Key(i) = Key(j)
    /\ \A i \in 1..Len(chan) :
          (\A p \in 1..Len(chan[i].content) : is_whitespace(chan[i].content[p])) =>
              Key(i) = << >>

\* C15: a delete is asked only for a message whose key is also the key of
\* another message of the channel.
C15_NoSelfDeletion ==
    \A id \in liveDel \cup readyDel :
        \E j \in Monitored : j # id /\ Key(j) = Key(id)

\* C16: between the arrival of Ready and the end of its catch-up no Message
\* handler inserts a key or sets the mark.
C16_CatchUpBeforeLive ==
    [][ CatchingUp =>
            \A id \in Ids :
                ~(live[id] = "nick" /\ live'[id] \in { "delete", "commit" }) ]_vars

\* C17: a handler that waits for a history request or a delete request does
\* not hold the mutex.
C17_NoLockAcrossIO ==
    rpc \in { "fetch", "delete" } => holder = Free

\* C18: a duplicate whose delete failed in a catch-up is gone once a later
\* catch-up has completed.
C18_FailedDeleteCaughtLater ==
    rpc \in { "commit", "done" } =>
        \A id \in Ids : readyFail[id] = 2 => id \in gone

\* C19: the Message handler's critical section leaves cache and mark as they
\* are for a duplicate; for a new message it adds the message's key and sets
\* the mark to the message's id.
C19_MarkOnlyForNew ==
    [][ \A id \in Ids :
            (live[id] = "nick" /\ live'[id] \in { "delete", "commit" }) =>
                IF Key(id) \in cache
                THEN cache' = cache /\ last_message_id' = last_message_id
                ELSE cache' = cache \cup { Key(id) } /\ last_message_id' = Some(id)
      ]_vars

\* C20: with no message posted during the scan, a page holds only messages
\* after the local mark, the end of a page moves the local mark forward, past
\* every message scanned, so that no message is fetched twice; and a catch-up
\* that has the lock goes on to fetch an empty page, release the lock, save
\* the state and return, from a stored mark and from none.
C20_CatchUpTerminates ==
    /\ [][ /\ (rpc = "fetch" /\ rpc' = "scan" /\ rlast # None) =>
                 \A p \in 1..Len(msgs') : msgs'[p] > rlast[1]
           /\ (rpc \in { "scan", "delete" } /\ rpc' = "fetch") =>
                 /\ rlast' # None
                 /\ rlast # None => rlast'[1] > rlast[1]
                 /\ \A p \in 1..Len(rlog') : rlog'[p][1] <= rlast'[1]
           /\ \A p, q \in 1..Len(rlog') : rlog'[p][1] = rlog'[q][1] => p = q
         ]_vars
    /\ (rpc = "fetch") ~>
          (rpc = "done" /\ holder = Free
             /\ file = to_writer_pretty(cache, last_message_id))

C20_Witness ==
    /\ rpc = "commit"
    /\ holder = Free
    /\ boot = "full"
    /\ rfrom = Some(1)
    /\ Len(rlog) = 2
    /\ last_message_id = Some(3)

====
